---------------------------- MODULE Spec2Model ----------------------------
(***************************************************************************)
(* CudaDevice::Dot of xchainer (src/xchainer/cuda/cuda_device/dot.cc):     *)
(* the strided matrix product out = a x b computed with a column-major     *)
(* gemm kernel.  Arrays are views (shape, byte strides, byte offset) over  *)
(* buffers of elements; element values are integers (rounding is not       *)
(* modelled).  One call of Dot is a sequence of steps tracked by pc; a     *)
(* second call with the same a and b and another output follows a          *)
(* successful first call.                                                  *)
(***************************************************************************)
EXTENDS Integers, Sequences, FiniteSets, TLC

\* Largest extent of m, k and n that is explored.
MaxDim == 2

Dims == 0..MaxDim

\* Dtype: the two types gemm is dispatched for, and one it is not.
Dtypes == {"kFloat32", "kFloat64", "kInt32"}

\* Device indices; the device the call runs on is the variable index.
Devices == {0, 1}

\* Memory layouts of the caller's arrays.
\*   C     row-major, packed
\*   F     column-major, packed
\*   CView row-major view that skips the first column of a wider parent
\*   FView column-major view that skips the first row of a taller parent
Layouts == {"C", "F", "CView", "FView"}

\* Contents a buffer holds where no element of the view lives, and the
\* contents an uninitialised allocation may hold; the output of the first
\* call starts filled with the smaller, that of the second with the other.
GapValue == 0 - 1
JunkValues == {70, 90}

\* Buffers: the caller's (a, b, out of call 1, out of call 2) and the
\* temporaries a call allocates.
CallerBufs == {"a", "b", "out1", "out2"}
TempBufs == {"a_copy", "b_copy", "out_tmp"}
Bufs == CallerBufs \cup TempBufs

item_size(dtype) == IF dtype = "kFloat64" THEN 8 ELSE 4

Max(x, y) == IF x >= y THEN x ELSE y

RECURSIVE SumSeq(_)
SumSeq(s) == IF s = << >> THEN 0 ELSE Head(s) + SumSeq(Tail(s))

-----------------------------------------------------------------------------
(* Arrays *)

Rows(x) == x.shape[1]
Cols(x) == x.shape[2]
Indices(x) == (0..(Rows(x) - 1)) \X (0..(Cols(x) - 1))

\* Element index (0-based) in the buffer of the element (i, j) of view x.
ElemIndex(x, i, j) ==
    (x.offset + i * x.strides[1] + j * x.strides[2]) \div item_size(x.dtype)

\* A read of position p (1-based) of a buffer; no element lives outside it.
Load(buf, p) == IF p \in DOMAIN buf THEN buf[p] ELSE GapValue

\* The element (i, j) of view x in memory mm.
At(mm, x, i, j) == Load(mm[x.buf], ElemIndex(x, i, j) + 1)

\* The logical contents of view x.
Logical(mm, x) == [ij \in Indices(x) |-> At(mm, x, ij[1], ij[2])]

\* The positions (1-based) of the buffer that view x addresses.
ViewPositions(x) == {ElemIndex(x, ij[1], ij[2]) + 1 : ij \in Indices(x)}

\* Array::IsContiguous: C-contiguous, the strides of a packed row-major array.
IsContiguous(x) ==
    /\ x.strides[2] = item_size(x.dtype)
    /\ x.strides[1] = item_size(x.dtype) * Cols(x)

\* A packed row-major array of the given shape over buffer buf.
ContiguousArray(r, c, dtype, device, buf) ==
    [shape |-> <<r, c>>,
     strides |-> <<c * item_size(dtype), item_size(dtype)>>,
     offset |-> 0, dtype |-> dtype, device |-> device, buf |-> buf]

\* The caller's array of a layout.
MakeArray(layout, r, c, dtype, device, buf) ==
    LET w == item_size(dtype) IN
    [shape |-> <<r, c>>,
     strides |-> CASE layout = "C" -> <<c * w, w>>
                   [] layout = "F" -> <<w, r * w>>
                   [] layout = "CView" -> <<(c + 1) * w, w>>
                   [] layout = "FView" -> <<w, (r + 1) * w>>,
     offset |-> IF layout \in {"CView", "FView"} THEN w ELSE 0,
     dtype |-> dtype, device |-> device, buf |-> buf]

\* Length of the buffer under the caller's array of a layout.
BufLen(layout, r, c) ==
    CASE layout = "C" -> r * c
      [] layout = "F" -> r * c
      [] layout = "CView" -> r * (c + 1)
      [] layout = "FView" -> (r + 1) * c

\* The buffer of view x holding val[<<i, j>>] at (i, j) and gap elsewhere.
FillBuffer(x, len, val, gap) ==
    [p \in 1..len |->
        LET at == {q \in Indices(x) : ElemIndex(x, q[1], q[2]) + 1 = p}
        IN IF at = {}
           THEN gap
           ELSE val[CHOOSE q \in at : TRUE]]

\* Element values of the operands: distinct in every position.
ValA(i, l) == 1 + i * (MaxDim + 2) + l
ValB(l, j) == 2 + 3 * l + 7 * j


-----------------------------------------------------------------------------
(* Collaborators of Dot: views, copies, the reduction and the gemm kernel *)

\* GetRawOffsetData: the element index the data pointer of x points at.
GetRawOffsetData(x) == x.offset \div item_size(x.dtype)

\* Reshape to rank 1: the elements of x in row-major order.
Reshape(mm, x) ==
    [t \in 1..(Rows(x) * Cols(x)) |->
        At(mm, x, (t - 1) \div Cols(x), (t - 1) % Cols(x))]

\* operator*: the elementwise product of two vectors of one length.
Multiply(l, r) == [t \in 1..Len(l) |-> l[t] * r[t]]

\* Sum(x, {0}, o): the sum of vector v stored into the rank-0 view at the
\* data pointer of o; no other position of the buffer of o changes.
Sum(mm, v, o) ==
    [mm EXCEPT ![o.buf] =
        [p \in DOMAIN mm[o.buf] |->
            IF p = GetRawOffsetData(o) + 1 THEN SumSeq(v) ELSE mm[o.buf][p]]]

\* The contents of a fresh packed row-major buffer holding the logical
\* contents of x (AsConstant(CopyKind::kCopy)).
AsConstantCopy(mm, x) ==
    [t \in 1..(Rows(x) * Cols(x)) |->
        At(mm, x, (t - 1) \div Cols(x), (t - 1) % Cols(x))]

\* Copy(src, dst): the logical contents of src stored through view dst.
Copy(mm, src, dst) ==
    [mm EXCEPT ![dst.buf] =
        [p \in DOMAIN mm[dst.buf] |->
            LET at == {q \in Indices(dst) : ElemIndex(dst, q[1], q[2]) + 1 = p}
            IN IF at = {}
               THEN mm[dst.buf][p]
               ELSE LET ij == CHOOSE q \in at : TRUE IN At(mm, src, ij[1], ij[2])]]

\* CheckDevicesCompatible: every array lives on the device of the call.
DevicesCompatible(dev, x, y, z) ==
    /\ x.device = dev
    /\ y.device = dev
    /\ z.device = dev

\* A fresh GemmInputLayout.
GemmInputLayout == [ld |-> 0, trans |-> "CUBLAS_OP_T"]

\* The Fortran test without its second condition.
IsFortranContiguous_first_stride_only(x) ==
    x.strides[1] = item_size(x.dtype)

\* The Fortran-contiguity test of GemmInputLayout::Configure.
IsFortranContiguous(x) ==
    /\ x.strides[1] = item_size(x.dtype)
    /\ x.strides[1] * x.shape[1] = x.strides[2]

\* Configure clearing the transpose flag on the Fortran branch too.
Configure_no_transpose(x) ==
    IF IsFortranContiguous(x)
    THEN [ld |-> x.shape[1], trans |-> "CUBLAS_OP_N", copy |-> FALSE]
    ELSE [ld |-> x.shape[2], trans |-> "CUBLAS_OP_N", copy |-> ~IsContiguous(x)]

\* GemmInputLayout::Configure on a fresh layout: the members ld and trans
\* it leaves, and whether the array it returns is a copy of x.
Configure(x) ==
    IF IsFortranContiguous(x)
    THEN [ld |-> x.shape[1], trans |-> GemmInputLayout.trans, copy |-> FALSE]
    ELSE [ld |-> x.shape[2], trans |-> "CUBLAS_OP_N", copy |-> ~IsContiguous(x)]

\* The scalar multipliers handed to gemm.
one == 1

\* beta = 1: gemm accumulating into the output.
zero_accumulates == one

zero == 0

\* The argument rule of cublas<t>gemm (column-major, C is gm x gn):
\* CUBLAS_STATUS_INVALID_VALUE unless all of it holds.
GemmArgsValid(transa, transb, gm, gn, gk, lda, ldb, ldc) ==
    /\ gm >= 0 /\ gn >= 0 /\ gk >= 0
    /\ lda >= (IF transa = "CUBLAS_OP_N" THEN Max(1, gm) ELSE Max(1, gk))
    /\ ldb >= (IF transb = "CUBLAS_OP_N" THEN Max(1, gk) ELSE Max(1, gn))
    /\ ldc >= Max(1, gm)

\* cublas<t>gemm: C = alpha op(A) op(B) + beta C on column-major data.
\* A, B and C are [buf, base]: a buffer and the index its pointer is at.
\* The result is the new buffer of C.
Gemm(transa, transb, gm, gn, gk, alpha, A, lda, B, ldb, beta, C, ldc) ==
    LET opA(i, l) == IF transa = "CUBLAS_OP_N"
                     THEN Load(A.buf, A.base + i + l * lda + 1)
                     ELSE Load(A.buf, A.base + l + i * lda + 1)
        opB(l, j) == IF transb = "CUBLAS_OP_N"
                     THEN Load(B.buf, B.base + l + j * ldb + 1)
                     ELSE Load(B.buf, B.base + j + l * ldb + 1)
        Cells == (0..(gm - 1)) \X (0..(gn - 1))
        Pos(ij) == C.base + ij[1] + ij[2] * ldc + 1
    IN [p \in DOMAIN C.buf |->
           LET at == {q \in Cells : Pos(q) = p}
           IN IF at = {}
              THEN C.buf[p]
              ELSE LET ij == CHOOSE q \in at : TRUE
                   IN alpha * SumSeq([l \in 1..gk |-> opA(ij[1], l - 1) * opB(l - 1, ij[2])])
                      + (IF beta = 0 THEN 0 ELSE beta * C.buf[p])]

-----------------------------------------------------------------------------
(* State *)

VARIABLES
    a, b, out,          \* the arguments of the call in progress
    out_next,           \* the output of the second call
    index,              \* CudaDevice::index() of the device Dot is called on
    cur_device,         \* the process-wide current device (cudaSetDevice)
    mem,                \* buffer contents
    mem0,               \* buffer contents when the call in progress began
    cur_device0,        \* current device when the call in progress began
    pc,                 \* position in Dot
    call,               \* 1 or 2
    error,              \* the exception the call raised, or "none"
    log,                \* the collaborator calls of the call, in order
    is_out_contiguous, out_contiguous,
    a_layout, b_layout, a_config, b_config

args == <<a, b, out, out_next, index>>
locals == <<is_out_contiguous, out_contiguous, a_layout, b_layout, a_config, b_config>>
vars == <<a, b, out, out_next, index, cur_device, mem, mem0, cur_device0, pc,
          call, error, log, is_out_contiguous, out_contiguous,
          a_layout, b_layout, a_config, b_config>>

m == a.shape[1]
k == a.shape[2]
n == b.shape[2]

\* A local not yet assigned.
NullArray ==
    [shape |-> <<0, 0>>, strides |-> <<0, 0>>, offset |-> 0,
     dtype |-> "kFloat32", device |-> 0, buf |-> "null"]

\* Placements of (a, b, out) relative to the device of the call: all on
\* it, or one of the three elsewhere.
Placements(dev) ==
    LET other == CHOOSE d \in Devices : d # dev IN
    {<<dev, dev, dev>>, <<other, dev, dev>>, <<dev, other, dev>>, <<dev, dev, other>>}

Init ==
    \E mm \in Dims, kk \in Dims, nn \in Dims,
       la \in Layouts, lb \in Layouts, lo \in Layouts,
       dtype \in Dtypes, dev \in Devices :
      \E place \in Placements(dev) :
        LET A == MakeArray(la, mm, kk, dtype, place[1], "a")
            B == MakeArray(lb, kk, nn, dtype, place[2], "b")
            O1 == MakeArray(lo, mm, nn, dtype, place[3], "out1")
            O2 == MakeArray(lo, mm, nn, dtype, place[3], "out2")
            junk == CHOOSE j \in JunkValues : \A j2 \in JunkValues : j <= j2
            other == CHOOSE j \in JunkValues : j # junk
            M == [id \in Bufs |->
                    CASE id = "a" ->
                           FillBuffer(A, BufLen(la, mm, kk),
                                      [ij \in Indices(A) |-> ValA(ij[1], ij[2])], GapValue)
                      [] id = "b" ->
                           FillBuffer(B, BufLen(lb, kk, nn),
                                      [ij \in Indices(B) |-> ValB(ij[1], ij[2])], GapValue)
                      [] id = "out1" -> [p \in 1..BufLen(lo, mm, nn) |-> junk]
                      [] id = "out2" -> [p \in 1..BufLen(lo, mm, nn) |-> other]
                      [] OTHER -> << >>]
        IN /\ a = A /\ b = B /\ out = O1 /\ out_next = O2
           /\ index = dev
           /\ cur_device = 0
           /\ mem = M /\ mem0 = mem
           /\ cur_device0 = 0
           /\ pc = "CheckDevicesCompatible"
           /\ call = 1
           /\ error = "none"
           /\ log = << >>
           /\ is_out_contiguous = FALSE
           /\ out_contiguous = NullArray
           /\ a_layout = GemmInputLayout /\ b_layout = GemmInputLayout
           /\ a_config = NullArray /\ b_config = NullArray

-----------------------------------------------------------------------------
(* Dot, step by step *)

Logged(op, buf) == log' = Append(log, <<op, buf>>)

\* Dot without its device check.
CheckDevicesCompatible_omitted ==
    /\ pc = "CheckDevicesCompatible"
    /\ Logged("CheckDevicesCompatible", "")
    /\ pc' = "cudaSetDevice"
    /\ UNCHANGED <<args, locals, cur_device, mem, mem0, cur_device0, call, error>>

\* CheckDevicesCompatible(a, b, out): raises when the arrays are not all on
\* the device of the call.
CheckDevicesCompatible ==
    /\ pc = "CheckDevicesCompatible"
    /\ Logged("CheckDevicesCompatible", "")
    /\ IF DevicesCompatible(index, a, b, out)
       THEN /\ pc' = "cudaSetDevice"
            /\ error' = error
       ELSE /\ pc' = "raised"
            /\ error' = "DeviceError"
    /\ UNCHANGED <<args, locals, cur_device, mem, mem0, cur_device0, call>>

\* CheckCudaError(cudaSetDevice(index())).
cudaSetDevice ==
    /\ pc = "cudaSetDevice"
    /\ cur_device' = index
    /\ Logged("cudaSetDevice", "")
    /\ pc' = "assert"
    /\ UNCHANGED <<args, locals, mem, mem0, cur_device0, call, error>>

\* The shape assertions; the caller's arrays are conformant.
AssertShapes ==
    /\ pc = "assert"
    /\ a.shape[2] = b.shape[1]
    /\ out.shape = <<m, n>>
    /\ Logged("assert", "")
    /\ pc' = "degenerate"
    /\ UNCHANGED <<args, locals, cur_device, mem, mem0, cur_device0, call, error>>

\* if (m == 1 && n == 1)
DegenerateCheck ==
    /\ pc = "degenerate"
    /\ Logged("degenerate", "")
    /\ pc' = IF m = 1 /\ n = 1 THEN "Sum" ELSE "IsContiguous"
    /\ UNCHANGED <<args, locals, cur_device, mem, mem0, cur_device0, call, error>>

\* The degenerate path multiplying l by itself.
Degenerate_squares_l ==
    /\ pc = "Sum"
    /\ mem' = Sum(mem, Multiply(Reshape(mem, a), Reshape(mem, a)), out)
    /\ Logged("Sum", out.buf)
    /\ pc' = "returned"
    /\ UNCHANGED <<args, locals, cur_device, mem0, cur_device0, call, error>>

\* The degenerate path without its return.
Degenerate_no_return ==
    /\ pc = "Sum"
    /\ mem' = Sum(mem, Multiply(Reshape(mem, a), Reshape(mem, b)), out)
    /\ Logged("Sum", out.buf)
    /\ pc' = "IsContiguous"
    /\ UNCHANGED <<args, locals, cur_device, mem0, cur_device0, call, error>>

\* Sum(l.Reshape({k}) * r.Reshape({k}), {0}, o.Reshape({})); return;
Degenerate ==
    /\ pc = "Sum"
    /\ mem' = Sum(mem, Multiply(Reshape(mem, a), Reshape(mem, b)), out)
    /\ Logged("Sum", out.buf)
    /\ pc' = "returned"
    /\ UNCHANGED <<args, locals, cur_device, mem0, cur_device0, call, error>>

\* Dot writing into out whatever its layout.
OutContiguous_never_scratch ==
    /\ pc = "IsContiguous"
    /\ is_out_contiguous' = TRUE
    /\ out_contiguous' = out
    /\ mem' = mem
    /\ Logged("IsContiguous", "")
    /\ pc' = "dispatch"
    /\ UNCHANGED <<args, a_layout, b_layout, a_config, b_config, cur_device,
                   mem0, cur_device0, call, error>>

\* is_out_contiguous = out.IsContiguous();
\* out_contiguous = is_out_contiguous ? out : EmptyLike(out, *this);
\* the fresh buffer is uninitialised.
OutContiguous ==
    /\ pc = "IsContiguous"
    /\ is_out_contiguous' = IsContiguous(out)
    /\ IF IsContiguous(out)
       THEN /\ out_contiguous' = out
            /\ mem' = mem
            /\ Logged("IsContiguous", "")
       ELSE /\ out_contiguous' = ContiguousArray(m, n, out.dtype, index, "out_tmp")
            /\ \E junk \in JunkValues :
                 mem' = [mem EXCEPT !["out_tmp"] = [p \in 1..(m * n) |-> junk]]
            /\ Logged("EmptyLike", "out_tmp")
    /\ pc' = "dispatch"
    /\ UNCHANGED <<args, a_layout, b_layout, a_config, b_config, cur_device,
                   mem0, cur_device0, call, error>>

\* The types gemm_impl is instantiated for.
Supported(dtype) == dtype \in {"kFloat32", "kFloat64"}

\* if (a.dtype() == kFloat32) ... else if (kFloat64) ... else throw
Dispatch ==
    /\ pc = "dispatch"
    /\ Logged("dispatch", "")
    /\ IF Supported(a.dtype)
       THEN /\ pc' = "Configure_a"
            /\ error' = error
       ELSE /\ pc' = "raised"
            /\ error' = "NotImplementedError"
    /\ UNCHANGED <<args, locals, cur_device, mem, mem0, cur_device0, call>>

\* Array a_config = a_layout.Configure(a);
ConfigureA ==
    /\ pc = "Configure_a"
    /\ LET c == Configure(a) IN
         /\ a_layout' = [ld |-> c.ld, trans |-> c.trans]
         /\ IF c.copy
            THEN /\ a_config' = ContiguousArray(m, k, a.dtype, a.device, "a_copy")
                 /\ mem' = [mem EXCEPT !["a_copy"] = AsConstantCopy(mem, a)]
            ELSE /\ a_config' = a
                 /\ mem' = mem
         /\ Logged(IF c.copy THEN "ConfigureCopy" ELSE "Configure", "a")
    /\ pc' = "Configure_b"
    /\ UNCHANGED <<args, is_out_contiguous, out_contiguous, b_layout, b_config,
                   cur_device, mem0, cur_device0, call, error>>

\* Array b_config = b_layout.Configure(b);
ConfigureB ==
    /\ pc = "Configure_b"
    /\ LET c == Configure(b) IN
         /\ b_layout' = [ld |-> c.ld, trans |-> c.trans]
         /\ IF c.copy
            THEN /\ b_config' = ContiguousArray(k, n, b.dtype, b.device, "b_copy")
                 /\ mem' = [mem EXCEPT !["b_copy"] = AsConstantCopy(mem, b)]
            ELSE /\ b_config' = b
                 /\ mem' = mem
         /\ Logged(IF c.copy THEN "ConfigureCopy" ELSE "Configure", "b")
    /\ pc' = "Gemm"
    /\ UNCHANGED <<args, is_out_contiguous, out_contiguous, a_layout, a_config,
                   cur_device, mem0, cur_device0, call, error>>

\* The arguments of the Gemm<T> call, in the order of cublas<t>gemm, for
\* layouts al of a and bl of b and the extents dm, dn, dk of the product.
GemmArgsOf(al, bl, dm, dn, dk) ==
    [transa |-> bl.trans, transb |-> al.trans,
     m |-> dn, n |-> dm, k |-> dk,
     lda |-> bl.ld, ldb |-> al.ld, ldc |-> dn]

GemmArgs == GemmArgsOf(a_layout, b_layout, m, n, k)

\* Whether cuBLAS accepts the arguments of the call.
GemmAccepts(g) ==
    GemmArgsValid(g.transa, g.transb, g.m, g.n, g.k, g.lda, g.ldb, g.ldc)

\* The memory after the gemm the call performs on operands x and y (with
\* layouts lx and ly) and output o, all living in mm.
GemmCall(mm, g, x, y, o) ==
    [mm EXCEPT ![o.buf] =
        Gemm(g.transa, g.transb, g.m, g.n, g.k, one,
             [buf |-> mm[y.buf], base |-> GetRawOffsetData(y)], g.lda,
             [buf |-> mm[x.buf], base |-> GetRawOffsetData(x)], g.ldb,
             zero,
             [buf |-> mm[o.buf], base |-> GetRawOffsetData(o)], g.ldc)]

\* Gemm<T>{}(cublas_handle(), b_layout.trans, a_layout.trans, n, m, k, &one,
\*           b_ptr, b_layout.ld, a_ptr, a_layout.ld, &zero, out_ptr, n);
\* CheckCublasError raises when cuBLAS rejects the arguments.
GemmStep ==
    /\ pc = "Gemm"
    /\ Logged("Gemm", out_contiguous.buf)
    /\ IF GemmAccepts(GemmArgs)
       THEN /\ mem' = GemmCall(mem, GemmArgs, a_config, b_config, out_contiguous)
            /\ pc' = "copy_back"
            /\ error' = error
       ELSE /\ mem' = mem
            /\ pc' = "raised"
            /\ error' = "CublasError"
    /\ UNCHANGED <<args, locals, cur_device, mem0, cur_device0, call>>

\* The copy-back made whether or not out is contiguous.
CopyBack_unconditional ==
    /\ pc = "copy_back"
    /\ mem' = Copy(mem, out_contiguous, out)
    /\ Logged("Copy", out.buf)
    /\ pc' = "returned"
    /\ UNCHANGED <<args, locals, cur_device, mem0, cur_device0, call, error>>

\* if (!is_out_contiguous) { Copy(out_contiguous, out); }
CopyBack ==
    /\ pc = "copy_back"
    /\ IF ~is_out_contiguous
       THEN /\ mem' = Copy(mem, out_contiguous, out)
            /\ Logged("Copy", out.buf)
       ELSE /\ mem' = mem
            /\ log' = log
    /\ pc' = "returned"
    /\ UNCHANGED <<args, locals, cur_device, mem0, cur_device0, call, error>>

\* After a successful first call: Dot(a, b, out_next), the temporaries of
\* the first call released.
SecondCall ==
    /\ pc = "returned"
    /\ call = 1
    /\ call' = 2
    /\ out' = out_next
    /\ mem' = [id \in Bufs |-> IF id \in TempBufs THEN << >> ELSE mem[id]]
    /\ mem0' = mem'
    /\ cur_device0' = cur_device
    /\ pc' = "CheckDevicesCompatible"
    /\ log' = << >>
    /\ is_out_contiguous' = FALSE
    /\ out_contiguous' = NullArray
    /\ a_layout' = GemmInputLayout /\ b_layout' = GemmInputLayout
    /\ a_config' = NullArray /\ b_config' = NullArray
    /\ UNCHANGED <<a, b, out_next, index, cur_device, error>>

Next ==
    \/ CheckDevicesCompatible
    \/ cudaSetDevice
    \/ AssertShapes
    \/ DegenerateCheck
    \/ Degenerate
    \/ OutContiguous
    \/ Dispatch
    \/ ConfigureA
    \/ ConfigureB
    \/ GemmStep
    \/ CopyBack
    \/ SecondCall

Spec == Init /\ [][Next]_vars

\* The general path of Dot (lines 89-122) on operands x, y and output o in
\* memory mm, as one function: whether it returns, and the memory it leaves.
GeneralPath(mm, x, y, o, fresh) ==
    LET cx == Configure(x)
        cy == Configure(y)
        x_config == IF cx.copy
                    THEN ContiguousArray(Rows(x), Cols(x), x.dtype, x.device, "a_copy")
                    ELSE x
        y_config == IF cy.copy
                    THEN ContiguousArray(Rows(y), Cols(y), y.dtype, y.device, "b_copy")
                    ELSE y
        o_contiguous == IF IsContiguous(o)
                        THEN o
                        ELSE ContiguousArray(Rows(o), Cols(o), o.dtype, o.device, "out_tmp")
        mm1 == [mm EXCEPT
                  !["out_tmp"] = IF IsContiguous(o) THEN @
                                 ELSE [p \in 1..(Rows(o) * Cols(o)) |-> fresh],
                  !["a_copy"] = IF cx.copy THEN AsConstantCopy(mm, x) ELSE @,
                  !["b_copy"] = IF cy.copy THEN AsConstantCopy(mm, y) ELSE @]
        g == GemmArgsOf(cx, cy, Rows(x), Cols(y), Cols(x))
        mm2 == GemmCall(mm1, g, x_config, y_config, o_contiguous)
    IN [returns |-> Supported(x.dtype) /\ GemmAccepts(g),
        mem |-> IF IsContiguous(o) THEN mm2 ELSE Copy(mm2, o_contiguous, o)]

-----------------------------------------------------------------------------
(* Properties *)

Finished == pc \in {"returned", "raised"}

\* The matrix product of two logical matrices (the naive triple loop).
MatMul(la, lb, dm, dk, dn) ==
    [ij \in (0..(dm - 1)) \X (0..(dn - 1)) |->
        SumSeq([l \in 1..dk |-> la[<<ij[1], l - 1>>] * lb[<<l - 1, ij[2]>>]])]

\* The product of the operands as they were when the call began.
Product == MatMul(Logical(mem0, a), Logical(mem0, b), m, k, n)

\* C1: for every conformant shape and element type float32 or float64,
\* once Dot has returned, out[i][j] is the sum over l of a[i][l] b[l][j],
\* whatever the layouts of a, b and out.
C1_DotIsMatrixProduct ==
    (pc = "returned" /\ Supported(a.dtype)) => Logical(mem, out) = Product

\* A returned call with a strided a, a Fortran-contiguous b and a
\* Fortran-contiguous (not C-contiguous) out of more than one row and column.
C1_Witness ==
    /\ pc = "returned" /\ Supported(a.dtype)
    /\ m = 2 /\ k = 2 /\ n = 2
    /\ ~IsContiguous(a) /\ ~IsFortranContiguous(a)
    /\ IsFortranContiguous(b) /\ ~IsContiguous(b)
    /\ IsFortranContiguous(out) /\ ~IsContiguous(out)
    /\ Logical(mem, out) = Product
    /\ Logical(mem, out)[<<1, 0>>] = ValA(1, 0) * ValB(0, 0) + ValA(1, 1) * ValB(1, 0)

\* C2: when the element type is neither float32 nor float64, Dot fails with
\* NotImplementedError for every shape (m = n = 1 included) and out is not
\* written: no reduction and no copy into out is performed.
C2_UnsupportedDtypeRaises ==
    (Finished /\ ~Supported(a.dtype) /\ DevicesCompatible(index, a, b, out)) =>
        /\ error = "NotImplementedError"
        /\ mem[out.buf] = mem0[out.buf]
        /\ \A i \in DOMAIN log : log[i][1] \notin {"Sum", "Copy"}

\* C3: when a, b and out are not all on one device, Dot fails at the
\* device-compatibility check: the device is not selected, nothing is
\* allocated, copied, reduced or multiplied, and the current device and all
\* memory are as before the call.
C3_DeviceMismatchFailsFirst ==
    (a.device # b.device \/ b.device # out.device) =>
        /\ pc \in {"CheckDevicesCompatible", "raised"}
        /\ pc = "raised" => error = "DeviceError"
        /\ \A i \in DOMAIN log : log[i][1] = "CheckDevicesCompatible"
        /\ cur_device = cur_device0
        /\ mem = mem0

\* The call has failed on arrays that are not on one device.
C3_Witness ==
    /\ a.device # out.device
    /\ pc = "raised" /\ error = "DeviceError"
    /\ log = << <<"CheckDevicesCompatible", "">> >>
    /\ cur_device # index

\* C10: on every general-path call with a supported element type, for all
\* conformant shapes (m, n or k = 0 included), the arguments handed to gemm
\* satisfy its column-major leading-dimension rule, so it never rejects them.
C10_GemmArgsAccepted ==
    pc = "Gemm" => GemmAccepts(GemmArgs)

\* The row of a and the column of b embedded in a 2 x k and a k x 2 operand
\* of layouts la and lb, multiplied on the general path into a 2 x 2 output
\* of layout lo: whether that call returns, and its entry (0, 0).
Embedded(la, lb, lo) ==
    LET A2 == MakeArray(la, 2, k, a.dtype, a.device, "a")
        B2 == MakeArray(lb, k, 2, b.dtype, b.device, "b")
        O2 == MakeArray(lo, 2, 2, out.dtype, out.device, "out1")
        PadA == [ij \in Indices(A2) |->
                   IF ij[1] = 0 THEN At(mem0, a, 0, ij[2]) ELSE 5 + ij[2]]
        PadB == [ij \in Indices(B2) |->
                   IF ij[2] = 0 THEN At(mem0, b, ij[1], 0) ELSE 3 + ij[1]]
        mm == [id \in Bufs |->
                 CASE id = "a" -> FillBuffer(A2, BufLen(la, 2, k), PadA, GapValue)
                   [] id = "b" -> FillBuffer(B2, BufLen(lb, k, 2), PadB, GapValue)
                   [] id = "out1" -> [p \in 1..BufLen(lo, 2, 2) |-> GapValue]
                   [] OTHER -> << >>]
        r == GeneralPath(mm, A2, B2, O2, GapValue)
    IN [returns |-> r.returns, entry |-> At(r.mem, O2, 0, 0)]

\* C4: for m = 1 and n = 1, every k and every layout, the degenerate path
\* leaves out[0][0] = sum over l of a[0][l] b[l][0], the value the general
\* path yields for entry (0, 0) when the row and the column are embedded in
\* a larger product.
C4_DegenerateMatchesGeneral ==
    (pc = "returned" /\ m = 1 /\ n = 1) =>
        /\ At(mem, out, 0, 0) =
               SumSeq([l \in 1..k |-> At(mem0, a, 0, l - 1) * At(mem0, b, l - 1, 0)])
        /\ \A la \in Layouts, lb \in Layouts, lo \in Layouts :
               LET e == Embedded(la, lb, lo)
               IN e.returns => e.entry = At(mem, out, 0, 0)

\* The degenerate path has returned for k = 2 with strided operands, and an
\* embedding of them has gone through the general path.
C4_Witness ==
    /\ pc = "returned" /\ m = 1 /\ n = 1 /\ k = 2
    /\ ~IsContiguous(a) /\ ~IsContiguous(b)
    /\ log[Len(log)] = <<"Sum", out.buf>>
    /\ At(mem, out, 0, 0) = ValA(0, 0) * ValB(0, 0) + ValA(0, 1) * ValB(1, 0)
    /\ Embedded("CView", "F", "FView").returns
    /\ Embedded("CView", "F", "FView").entry = At(mem, out, 0, 0)

\* The output of the call that is not in progress.
OtherOut == IF call = 1 THEN "out2" ELSE "out1"

\* C5: on every path of Dot the buffers of a and b are unchanged, a and b
\* themselves (shape, strides, offset) are unchanged, and the only positions
\* of the caller's memory that change are those the out view addresses; the
\* gaps of a strided out keep their values.
C5_Frame ==
    /\ [](/\ mem["a"] = mem0["a"]
          /\ mem["b"] = mem0["b"]
          /\ mem[OtherOut] = mem0[OtherOut]
          /\ DOMAIN mem[out.buf] = DOMAIN mem0[out.buf]
          /\ \A p \in DOMAIN mem[out.buf] :
                 p \notin ViewPositions(out) => mem[out.buf][p] = mem0[out.buf][p])
    /\ [][a' = a /\ b' = b /\ (call' = call => out' = out)]_vars

\* A returned call on the scratch path whose strided out has gaps, with the
\* elements of the view written and the gaps as they were.
C5_Witness ==
    /\ pc = "returned" /\ ~is_out_contiguous
    /\ m = 2 /\ n = 2 /\ k = 1
    /\ \E p \in DOMAIN mem[out.buf] : p \notin ViewPositions(out)
    /\ \A p \in DOMAIN mem[out.buf] :
           (p \in ViewPositions(out)) <=> (mem[out.buf][p] # mem0[out.buf][p])

\* The output of the first call, addressed as out of the second call is.
FirstOut == [out EXCEPT !.buf = "out1"]

\* C6: the output is overwritten, not accumulated into: two successful
\* calls with the same a and b and outputs of one shape and layout that
\* differ in their initial contents leave equal logical contents.
C6_Overwrites ==
    (call = 2 /\ pc = "returned") => Logical(mem, out) = Logical(mem, FirstOut)

\* Both calls have returned on the direct-write path, the two outputs
\* having started with different contents.
C6_Witness ==
    /\ call = 2 /\ pc = "returned"
    /\ m = 2 /\ n = 2 /\ k = 2
    /\ is_out_contiguous
    /\ log[Len(log)] = <<"Gemm", "out2">>
    /\ \A p \in DOMAIN mem0["out2"] : mem0["out2"][p] \in JunkValues
    /\ Logical(mem, out) = Logical(mem, FirstOut)
    /\ Logical(mem, out) = Product

\* The position, relative to the data pointer, at which a column-major
\* reader with leading dimension ld and flag trans finds element (i, j).
DescribedPosition(layout, i, j) ==
    IF layout.trans = "CUBLAS_OP_T" THEN i + j * layout.ld ELSE i * layout.ld + j

\* What C7 says of operand x, the layout Configure left and the array it
\* returned.
ConfigureAgrees(x, layout, config) ==
    LET fortran == /\ x.strides[1] = item_size(x.dtype)
                   /\ x.strides[2] = x.strides[1] * x.shape[1]
        c_contiguous == /\ x.strides[2] = item_size(x.dtype)
                        /\ x.strides[1] = x.strides[2] * x.shape[2]
    IN /\ fortran => (config = x /\ layout = [ld |-> x.shape[1], trans |-> "CUBLAS_OP_T"])
       /\ ~fortran => layout = [ld |-> x.shape[2], trans |-> "CUBLAS_OP_N"]
       /\ (~fortran /\ c_contiguous) => config = x
       /\ (~fortran /\ ~c_contiguous) =>
              /\ config.buf \notin CallerBufs
              /\ config.shape = x.shape
              /\ config.strides[2] = item_size(x.dtype)
              /\ config.strides[1] = config.strides[2] * x.shape[2]
              /\ Logical(mem, config) = Logical(mem, x)
       /\ (config # x) <=> (~fortran /\ ~c_contiguous)
       /\ \A ij \in Indices(x) :
              Load(mem[config.buf],
                   GetRawOffsetData(config) + DescribedPosition(layout, ij[1], ij[2]) + 1)
                  = At(mem0, x, ij[1], ij[2])

\* C7: Configure on a fresh GemmInputLayout yields a descriptor consistent
\* with the array it returns: (shape[0], transposed) and x itself when the
\* Fortran test holds (it is tested first); otherwise (shape[1], not
\* transposed) and x itself when C-contiguous, else a fresh C-contiguous
\* copy with the same contents.  A copy is made exactly when x is neither.
C7_ConfigureConsistent ==
    /\ a_config # NullArray => ConfigureAgrees(a, a_layout, a_config)
    /\ b_config # NullArray => ConfigureAgrees(b, b_layout, b_config)

\* Both operands configured: a strided (copied), b Fortran-contiguous.
C7_Witness ==
    /\ pc = "Gemm"
    /\ m = 2 /\ k = 2 /\ n = 2
    /\ a_config.buf = "a_copy" /\ a_layout = [ld |-> 2, trans |-> "CUBLAS_OP_N"]
    /\ b_config = b /\ b_layout = [ld |-> 2, trans |-> "CUBLAS_OP_T"]
    /\ mem["a_copy"] = <<ValA(0, 0), ValA(0, 1), ValA(1, 0), ValA(1, 1)>>

\* The general path has decided where the kernel writes.
OnGeneralPath == out_contiguous # NullArray

\* The call has allocated a temporary output buffer.
Scratch == out_contiguous.buf = "out_tmp"

LogHas(op) == \E i \in DOMAIN log : log[i][1] = op

\* With a temporary buffer: the kernel writes only into it, and a single
\* copy into out comes last, after the kernel call, on a call that returns
\* (a call that raises performs none).  Without: the kernel writes into the
\* buffer of out, nothing is allocated and nothing is copied.
ScratchDiscipline ==
    /\ \A i \in DOMAIN log : log[i][1] = "Gemm" => log[i][2] = out_contiguous.buf
    /\ Scratch =>
           /\ LogHas("EmptyLike")
           /\ ~LogHas("Copy") => mem[out.buf] = mem0[out.buf]
           /\ \A i \in DOMAIN log :
                  log[i][1] = "Copy" =>
                      /\ i = Len(log)
                      /\ log[i][2] = out.buf
                      /\ \E j \in 1..(i - 1) : log[j][1] = "Gemm"
           /\ pc = "returned" => log[Len(log)][1] = "Copy"
           /\ pc = "raised" => ~LogHas("Copy")
    /\ ~Scratch =>
           /\ out_contiguous = out
           /\ mem["out_tmp"] = << >>
           /\ ~LogHas("EmptyLike")
           /\ ~LogHas("Copy")

\* C8 as stated: on the general path a temporary buffer is allocated
\* exactly when out is contiguous in neither the row-major nor the
\* column-major sense; then the kernel writes only into it and one copy
\* into out is the last step; otherwise the kernel writes directly into out.
C8_ScratchIffNeitherContiguous ==
    OnGeneralPath =>
        /\ Scratch <=>
               /\ ~(/\ out.strides[2] = item_size(out.dtype)
                    /\ out.strides[1] = out.strides[2] * out.shape[2])
               /\ ~(/\ out.strides[1] = item_size(out.dtype)
                    /\ out.strides[2] = out.strides[1] * out.shape[1])
        /\ ScratchDiscipline

\* C8 amended: on the general path a temporary buffer is allocated exactly
\* when out is not C-contiguous (a Fortran-contiguous out gets one too); then
\* the kernel writes only into it and, on a call that returns, one copy into
\* out is the last step, after the kernel call; when out is C-contiguous the
\* kernel writes directly into out, nothing is allocated or copied.
C8_ScratchIffNotCContiguous ==
    OnGeneralPath =>
        /\ Scratch <=>
               ~(/\ out.strides[2] = item_size(out.dtype)
                 /\ out.strides[1] = out.strides[2] * out.shape[2])
        /\ ScratchDiscipline

\* A returned call whose Fortran-contiguous out went through the temporary
\* buffer and the copy.
C8_Witness ==
    /\ pc = "returned" /\ m = 2 /\ n = 2 /\ k = 2
    /\ out.strides[1] = item_size(out.dtype)
    /\ out.strides[2] = out.strides[1] * out.shape[1]
    /\ Scratch
    /\ log[Len(log) - 1] = <<"Gemm", "out_tmp">>
    /\ log[Len(log)] = <<"Copy", out.buf>>
    /\ Logical(mem, out) = Product

\* The place of a step in the order C9 gives.
StepRank(op) ==
    CASE op = "CheckDevicesCompatible" -> 1
      [] op = "cudaSetDevice" -> 2
      [] op = "assert" -> 3
      [] op = "degenerate" -> 4
      [] op \in {"Sum", "IsContiguous", "EmptyLike"} -> 5
      [] op = "dispatch" -> 6
      [] op \in {"Configure", "ConfigureCopy"} -> 7
      [] op = "Gemm" -> 8
      [] op = "Copy" -> 9

\* C9: the steps of a call occur only in the order device check, device
\* selection, shape assertions, degenerate check, output contiguity check,
\* layout normalization (a, then b), kernel invocation, copy-back; the
\* device is selected before every reduction, layout copy, kernel and
\* copy-back; and for m = n = 1 the call ends right after the reduction
\* with no scratch buffer, normalization, gemm or copy-back.
C9_StepOrder ==
    /\ \A i \in DOMAIN log, j \in DOMAIN log :
           i < j =>
               \/ StepRank(log[i][1]) < StepRank(log[j][1])
               \/ /\ StepRank(log[i][1]) = 7 /\ StepRank(log[j][1]) = 7
                  /\ log[i][2] = "a" /\ log[j][2] = "b"
    /\ \A i \in DOMAIN log :
           log[i][1] \in {"Sum", "EmptyLike", "ConfigureCopy", "Gemm", "Copy"} =>
               \E j \in 1..(i - 1) : log[j][1] = "cudaSetDevice"
    /\ pc \in {"Sum", "IsContiguous", "Configure_a", "Configure_b", "Gemm", "copy_back"} =>
           cur_device = index
    /\ (m = 1 /\ n = 1) =>
           /\ \A i \in DOMAIN log : StepRank(log[i][1]) <= 5
           /\ ~LogHas("IsContiguous") /\ ~LogHas("EmptyLike")
           /\ LogHas("Sum") => (pc = "returned" /\ log[Len(log)][1] = "Sum")
           /\ \A id \in TempBufs : mem[id] = << >>
           /\ ~OnGeneralPath

\* A returned general-path call that made every step, the copies included.
C9_Witness ==
    /\ pc = "returned" /\ index = 1 /\ cur_device = 1 /\ cur_device0 = 0
    /\ log = << <<"CheckDevicesCompatible", "">>, <<"cudaSetDevice", "">>,
                <<"assert", "">>, <<"degenerate", "">>, <<"EmptyLike", "out_tmp">>,
                <<"dispatch", "">>, <<"ConfigureCopy", "a">>, <<"ConfigureCopy", "b">>,
                <<"Gemm", "out_tmp">>, <<"Copy", "out1">> >>

=============================================================================
